---------------------------- MODULE Spec2Model ----------------------------
(***************************************************************************)
(* Register layout of the CTU CAN FD frame buffer                          *)
(* (driver/ctu_can_fd_frame.h): the memory map of the frame words and the  *)
(* union overlays that give each 32-bit word an integer view (u32) and a   *)
(* bit-field view (s).                                                     *)
(*                                                                         *)
(* A 32-bit word is modelled as the set of the positions of its 1 bits     *)
(* (bit 0 is the least significant), because the values of uint32_t do not *)
(* all fit the model checker's integers.  Val gives the number a bit set   *)
(* denotes whenever that number is below 2^31.                             *)
(***************************************************************************)
EXTENDS Integers, Sequences, FiniteSets, TLC

VARIABLES
    config,   \* "LE": __LITTLE_ENDIAN_BITFIELD is defined; "BE": it is not
    reg,      \* offset of the frame word the overlay object describes
    u32,      \* the overlay object's 32 bits (the union's storage)
    op,       \* the kind of the last operation on the overlay object
    last,     \* per declared field: << >>, or <<v>> for the value v last
              \* assigned to it since u32 was last assigned as a whole
    nops      \* number of operations performed so far

vars == <<config, reg, u32, op, last, nops>>

-----------------------------------------------------------------------------
(* uint32_t and its bits                                                   *)

WordBits == 32

BitPos == 0 .. (WordBits - 1)

\* The bits of a number n < 2^31.
Bits(n) == {i \in 0 .. 30 : (n \div (2 ^ i)) % 2 = 1}

\* The number a bit set within 0..30 denotes.
RECURSIVE Val(_)
Val(S) ==
    IF S = {} THEN 0
    ELSE LET i == CHOOSE x \in S : TRUE
         IN  (2 ^ i) + Val(S \ {i})

\* The all-ones value of a w-bit field.
MaxVal(w) == 0 .. (w - 1)

\* v shifted left by n bits, v shifted right by n bits.
Shl(v, n) == {i + n : i \in v}
Shr(v, n) == {i - n : i \in {j \in v : j >= n}}

-----------------------------------------------------------------------------
(* CAN_Frame_format memory map                                             *)

CTU_CAN_FD_FRAME_FORM_W == 0
\* Faulty variant: the identifier word placed inside the frame-format word.
IdentifierOffset_InsideFrameForm == 4 - 2

CTU_CAN_FD_IDENTIFIER_W == 4
CTU_CAN_FD_TIMESTAMP_L_W == 8
CTU_CAN_FD_TIMESTAMP_U_W == 12
CTU_CAN_FD_DATA_1_4_W == 16
CTU_CAN_FD_DATA_5_8_W == 20
\* Faulty variant: the last data word placed one word early.
Data6164Offset_OneWordEarly == 76 - 4

CTU_CAN_FD_DATA_61_64_W == 76

E(n, o) == [name |-> n, offset |-> o]

\* The enumerators in declaration order (names without the CTU_CAN_FD_
\* prefix, which is how the register comments of the structs spell them).
ctu_can_fd_can_frame_format ==
    << E("FRAME_FORM_W", CTU_CAN_FD_FRAME_FORM_W),
       E("IDENTIFIER_W", CTU_CAN_FD_IDENTIFIER_W),
       E("TIMESTAMP_L_W", CTU_CAN_FD_TIMESTAMP_L_W),
       E("TIMESTAMP_U_W", CTU_CAN_FD_TIMESTAMP_U_W),
       E("DATA_1_4_W", CTU_CAN_FD_DATA_1_4_W),
       E("DATA_5_8_W", CTU_CAN_FD_DATA_5_8_W),
       E("DATA_61_64_W", CTU_CAN_FD_DATA_61_64_W) >>

Offsets == {ctu_can_fd_can_frame_format[i].offset :
                i \in 1 .. Len(ctu_can_fd_can_frame_format)}

-----------------------------------------------------------------------------
(* Register descriptions.  A union is recorded as its register comment,    *)
(* whether its struct body is split by #ifdef __LITTLE_ENDIAN_BITFIELD,    *)
(* the declarations of the #ifdef branch (or of the whole body when there  *)
(* is no #ifdef) and the declarations of the #else branch.                 *)

F(n, w) == [name |-> n, width |-> w]

\* Faulty variant: rwcnt declared one bit too narrow.
FrameFormW_RwcntFourBits ==
    [ reg   |-> "FRAME_FORM_W",
      ifdef |-> TRUE,
      body  |-> << F("dlc", 4), F("reserved_4", 1), F("rtr", 1), F("ide", 1),
                   F("fdf", 1), F("tbf", 1), F("brs", 1), F("esi_rsv", 1),
                   F("rwcnt", 4), F("reserved_31_16", 16) >>,
      else  |-> << F("reserved_31_16", 16), F("rwcnt", 4), F("esi_rsv", 1),
                   F("brs", 1), F("tbf", 1), F("fdf", 1), F("ide", 1),
                   F("rtr", 1), F("reserved_4", 1), F("dlc", 4) >> ]

ctu_can_fd_frame_form_w ==
    [ reg   |-> "FRAME_FORM_W",
      ifdef |-> TRUE,
      body  |-> << F("dlc", 4), F("reserved_4", 1), F("rtr", 1), F("ide", 1),
                   F("fdf", 1), F("tbf", 1), F("brs", 1), F("esi_rsv", 1),
                   F("rwcnt", 5), F("reserved_31_16", 16) >>,
      else  |-> << F("reserved_31_16", 16), F("rwcnt", 5), F("esi_rsv", 1),
                   F("brs", 1), F("tbf", 1), F("fdf", 1), F("ide", 1),
                   F("rtr", 1), F("reserved_4", 1), F("dlc", 4) >> ]

\* Faulty variant: identifier_base declared below identifier_ext.
IdentifierW_BaseBelowExt ==
    [ reg   |-> "IDENTIFIER_W",
      ifdef |-> TRUE,
      body  |-> << F("identifier_base", 11), F("identifier_ext", 18),
                   F("reserved_31_29", 3) >>,
      else  |-> << F("reserved_31_29", 3), F("identifier_ext", 18),
                   F("identifier_base", 11) >> ]

ctu_can_fd_identifier_w ==
    [ reg   |-> "IDENTIFIER_W",
      ifdef |-> TRUE,
      body  |-> << F("identifier_ext", 18), F("identifier_base", 11),
                   F("reserved_31_29", 3) >>,
      else  |-> << F("reserved_31_29", 3), F("identifier_base", 11),
                   F("identifier_ext", 18) >> ]

ctu_can_fd_timestamp_l_w ==
    [ reg   |-> "TIMESTAMP_L_W",
      ifdef |-> FALSE,
      body  |-> << F("time_stamp_31_0", 32) >>,
      else  |-> << >> ]

\* Faulty variant: the upper timestamp field one bit short of the word.
TimestampUW_31Bits ==
    [ reg   |-> "TIMESTAMP_U_W",
      ifdef |-> TRUE,
      body  |-> << F("timestamp_l_w", 31), F("reserved_31", 1) >>,
      else  |-> << F("reserved_31", 1), F("timestamp_l_w", 31) >> ]

ctu_can_fd_timestamp_u_w ==
    [ reg   |-> "TIMESTAMP_U_W",
      ifdef |-> FALSE,
      body  |-> << F("timestamp_l_w", 32) >>,
      else  |-> << >> ]

ctu_can_fd_data_1_4_w ==
    [ reg   |-> "DATA_1_4_W",
      ifdef |-> TRUE,
      body  |-> << F("data_1", 8), F("data_2", 8), F("data_3", 8),
                   F("data_4", 8) >>,
      else  |-> << F("data_4", 8), F("data_3", 8), F("data_2", 8),
                   F("data_1", 8) >> ]

\* Faulty variant: the #else branch repeats the order of the #ifdef branch.
Data58W_ElseNotReversed ==
    [ reg   |-> "DATA_5_8_W",
      ifdef |-> TRUE,
      body  |-> << F("data_5", 8), F("data_6", 8), F("data_7", 8),
                   F("data_8", 8) >>,
      else  |-> << F("data_5", 8), F("data_6", 8), F("data_7", 8),
                   F("data_8", 8) >> ]

ctu_can_fd_data_5_8_w ==
    [ reg   |-> "DATA_5_8_W",
      ifdef |-> TRUE,
      body  |-> << F("data_5", 8), F("data_6", 8), F("data_7", 8),
                   F("data_8", 8) >>,
      else  |-> << F("data_8", 8), F("data_7", 8), F("data_6", 8),
                   F("data_5", 8) >> ]

ctu_can_fd_data_61_64_w ==
    [ reg   |-> "DATA_61_64_W",
      ifdef |-> TRUE,
      body  |-> << F("data_61", 8), F("data_62", 8), F("data_63", 8),
                   F("data_64", 8) >>,
      else  |-> << F("data_64", 8), F("data_63", 8), F("data_62", 8),
                   F("data_61", 8) >> ]

\* The unions of the header, in the order it declares them.
Unions ==
    << ctu_can_fd_frame_form_w, ctu_can_fd_identifier_w,
       ctu_can_fd_timestamp_l_w, ctu_can_fd_timestamp_u_w,
       ctu_can_fd_data_1_4_w, ctu_can_fd_data_5_8_w,
       ctu_can_fd_data_61_64_w >>

\* The unions that describe the word at offset off: those whose register
\* comment is the name of the enumerator with that offset.
UnionsFor(off) ==
    {k \in 1 .. Len(Unions) :
        \E i \in 1 .. Len(ctu_can_fd_can_frame_format) :
            /\ ctu_can_fd_can_frame_format[i].offset = off
            /\ ctu_can_fd_can_frame_format[i].name = Unions[k].reg}

UnionFor(off) == Unions[CHOOSE k \in UnionsFor(off) : TRUE]

-----------------------------------------------------------------------------
(* The struct a build sees, and where the compiler puts its fields.        *)

Configs == {"LE", "BE"}

\* Faulty variant: the branches of the #ifdef taken the wrong way round.
Struct_BranchesSwapped(u, c) ==
    IF u.ifdef /\ c = "LE" THEN u.else ELSE u.body

\* Preprocessing: the branch of the #ifdef that config c compiles.
Struct(u, c) ==
    IF u.ifdef /\ c # "LE" THEN u.else ELSE u.body

\* Sum of the widths of the first k declarations.
RECURSIVE SumWidths(_, _)
SumWidths(decl, k) ==
    IF k = 0 THEN 0 ELSE decl[k].width + SumWidths(decl, k - 1)

\* Lowest bit of the k-th declared field.  A little-endian bit-field ABI
\* (the one __LITTLE_ENDIAN_BITFIELD announces) allocates the fields of a
\* storage unit from bit 0 upward in declaration order, a big-endian one
\* from bit 31 downward.
FieldLo(decl, k, c) ==
    IF c = "LE" THEN SumWidths(decl, k - 1)
                ELSE WordBits - SumWidths(decl, k)

FieldRange(decl, k, c) ==
    FieldLo(decl, k, c) .. (FieldLo(decl, k, c) + decl[k].width - 1)

\* Index of the field called name, 0 when the struct has none.
FieldIndex(decl, name) ==
    IF \E k \in 1 .. Len(decl) : decl[k].name = name
    THEN CHOOSE k \in 1 .. Len(decl) : decl[k].name = name
    ELSE 0

\* Faulty variant: the field's bits masked out of the word but not shifted
\* down.
ReadField_NoShift(raw, decl, k, c) ==
    raw \cap FieldRange(decl, k, c)

\* Faulty variant: the new value or-ed into the field without clearing the
\* field's old bits.
WriteField_NoClear(raw, decl, k, c, v) ==
    raw \cup Shl(v \cap MaxVal(decl[k].width), FieldLo(decl, k, c))

\* Faulty variant: the word replaced by the shifted value, the other
\* fields' bits lost.
WriteField_Clobber(raw, decl, k, c, v) ==
    Shl(v \cap MaxVal(decl[k].width), FieldLo(decl, k, c))

\* x = u.s.<field k>: the field's bits, as a number of its own.
ReadField(raw, decl, k, c) ==
    LET lo == FieldLo(decl, k, c)
    IN  Shr(raw \cap (lo .. (lo + decl[k].width - 1)), lo)

\* u.s.<field k> = v: the value is reduced modulo 2^width, the field's
\* bits are replaced and every other bit of the storage unit is kept.
WriteField(raw, decl, k, c, v) ==
    LET lo == FieldLo(decl, k, c)
    IN  (raw \ (lo .. (lo + decl[k].width - 1)))
            \cup Shl(v \cap MaxVal(decl[k].width), lo)

\* The field view of a raw word: the value of every declared field.
Split(raw, decl, c) ==
    [k \in 1 .. Len(decl) |-> ReadField(raw, decl, k, c)]

\* The raw word of a tuple of field values: every field written in turn
\* into a zeroed overlay.
RECURSIVE PackUpTo(_, _, _, _)
PackUpTo(t, decl, c, k) ==
    IF k = 0 THEN {}
    ELSE WriteField(PackUpTo(t, decl, c, k - 1), decl, k, c, t[k])

Pack(t, decl, c) == PackUpTo(t, decl, c, Len(decl))


-----------------------------------------------------------------------------
(* Names of the 1-bit flag values of the frame-format word.                *)

N(n, v) == [name |-> n, value |-> v]

ctu_can_fd_frame_form_w_rtr ==
    << N("NO_RTR_FRAME", 0), N("RTR_FRAME", 1) >>

ctu_can_fd_frame_form_w_ide ==
    << N("BASE", 0), N("EXTENDED", 1) >>

ctu_can_fd_frame_form_w_fdf ==
    << N("NORMAL_CAN", 0), N("FD_CAN", 1) >>

ctu_can_fd_frame_form_w_tbf ==
    << N("NOT_TIME_BASED", 0), N("TIME_BASED", 1) >>

ctu_can_fd_frame_form_w_brs ==
    << N("BR_NO_SHIFT", 0), N("BR_SHIFT", 1) >>

ctu_can_fd_frame_form_w_esi_rsv ==
    << N("ESI_ERR_ACTIVE", 0), N("ESI_ERR_PASIVE", 1) >>

\* Each flag enumeration with the field of the frame-format word its name
\* ends in.
FlagEnums ==
    << [field |-> "rtr", enum |-> ctu_can_fd_frame_form_w_rtr],
       [field |-> "ide", enum |-> ctu_can_fd_frame_form_w_ide],
       [field |-> "fdf", enum |-> ctu_can_fd_frame_form_w_fdf],
       [field |-> "tbf", enum |-> ctu_can_fd_frame_form_w_tbf],
       [field |-> "brs", enum |-> ctu_can_fd_frame_form_w_brs],
       [field |-> "esi_rsv", enum |-> ctu_can_fd_frame_form_w_esi_rsv] >>

EnumValues(e) == {e[i].value : i \in 1 .. Len(e)}

-----------------------------------------------------------------------------
(* 64-bit timestamps, as sets of bit positions within 0..63.               *)

Low32(t) == t \cap BitPos

High32(t) == Shr(t, WordBits)

Combine(hi, lo) == Shl(hi, WordBits) \cup lo

-----------------------------------------------------------------------------
(* Payload bytes.                                                          *)

\* The payload byte number a data field's name carries, 0 for a field that
\* is no payload byte.
ByteNumber(name) ==
    CASE name = "data_1" -> 1   [] name = "data_2" -> 2
      [] name = "data_3" -> 3   [] name = "data_4" -> 4
      [] name = "data_5" -> 5   [] name = "data_6" -> 6
      [] name = "data_7" -> 7   [] name = "data_8" -> 8
      [] name = "data_61" -> 61 [] name = "data_62" -> 62
      [] name = "data_63" -> 63 [] name = "data_64" -> 64
      [] OTHER -> 0

-----------------------------------------------------------------------------
(* Inputs.                                                                 *)

\* Longest sequence of operations explored.
MaxOps == 3

\* 0xDEADBEEF
Irregular == Shl(Bits(57005), 16) \cup Bits(48879)

\* Raw register contents a driver may read into an overlay.
RawSamples == { {}, BitPos, Irregular }

\* Values a driver may assign to a field of width w: zero, the maximum,
\* a pattern within the width, and (for a field of several bits narrower
\* than the word) one value that does not fit the field.
ValueSamples(w) ==
    { {}, MaxVal(w), Irregular \cap MaxVal(w) }
        \cup (IF 1 < w /\ w < WordBits THEN {MaxVal(w + 1)} ELSE {})

\* 64-bit timestamps: 0, 2^64-1, 2^32-1, 2^32, 0x12345678DEADBEEF.
TimestampSamples ==
    { {}, 0 .. 63, BitPos, {WordBits},
      Shl(Shl(Bits(4660), 16) \cup Bits(22136), WordBits) \cup Irregular }

-----------------------------------------------------------------------------
(* The overlay object and the operations on it.                            *)

\* The struct each build declares for the overlay at each offset.
StructOf == [c \in Configs |-> [off \in Offsets |-> Struct(UnionFor(off), c)]]

\* The struct of the overlay object as this build declares it.
Decl == StructOf[config][reg]

\* kind: "load", "field" or "timestamp"; t: the 64-bit timestamp a
\* "timestamp" operation stored its half of (empty otherwise).
Op(kind, t) == [kind |-> kind, t |-> t]

NoneWritten == [k \in 1 .. Len(Decl) |-> << >>]

\* An overlay object of one of the seven union types, in a build of one of
\* the two configurations, holding a register value read through u32.
Init ==
    /\ config \in Configs
    /\ reg \in Offsets
    /\ u32 \in RawSamples
    /\ op = Op("load", {})
    /\ last = NoneWritten
    /\ nops = 0

\* u.u32 = raw
Load(raw) ==
    /\ nops < MaxOps
    /\ u32' = raw
    /\ op' = Op("load", {})
    /\ last' = NoneWritten
    /\ nops' = nops + 1
    /\ UNCHANGED <<config, reg>>

\* u.s.<field k> = v
SetField(k, v) ==
    /\ nops < MaxOps
    /\ u32' = WriteField(u32, Decl, k, config, v)
    /\ op' = Op("field", {})
    /\ last' = [last EXCEPT ![k] = <<v>>]
    /\ nops' = nops + 1
    /\ UNCHANGED <<config, reg>>

\* The half of the 64-bit timestamp t that belongs to the overlay's word,
\* assigned to the single field of a timestamp word.
SetTimestamp(t) ==
    /\ nops < MaxOps
    /\ reg \in {CTU_CAN_FD_TIMESTAMP_L_W, CTU_CAN_FD_TIMESTAMP_U_W}
    /\ LET half == IF reg = CTU_CAN_FD_TIMESTAMP_L_W
                    THEN Low32(t) ELSE High32(t)
       IN  /\ u32' = WriteField(u32, Decl, 1, config, half)
           /\ last' = [last EXCEPT ![1] = <<half>>]
    /\ op' = Op("timestamp", t)
    /\ nops' = nops + 1
    /\ UNCHANGED <<config, reg>>

Next ==
    \/ \E raw \in RawSamples : Load(raw)
    \/ \E k \in 1 .. Len(Decl) :
           \E v \in ValueSamples(Decl[k].width) : SetField(k, v)
    \/ \E t \in TimestampSamples : SetTimestamp(t)

Spec == Init /\ [][Next]_vars

-----------------------------------------------------------------------------
(* Properties.                                                             *)

\* The number a bit set denotes, -1 when it does not fit below 2^31.
Num(S) == IF S \subseteq 0 .. 30 THEN Val(S) ELSE -1

Reverse(q) == [i \in 1 .. Len(q) |-> q[Len(q) + 1 - i]]

FieldNames(decl) == {decl[k].name : k \in 1 .. Len(decl)}

\* Field k was assigned the value v and nothing has overwritten it since.
Holds(k, v) == last[k] = <<v>>

\* Field k is the only field assigned since the word was loaded as zero,
\* and it was assigned its maximum.
OnlyMax(k) ==
    /\ Holds(k, MaxVal(Decl[k].width))
    /\ \A j \in 1 .. Len(Decl) : j # k => last[j] = << >>
    /\ \A j \in 1 .. Len(Decl) :
           j # k => ReadField(u32, Decl, j, config) = {}

\* C1: in every overlay type and in each endianness variant of its struct
\* the declared field widths, reserved fields included, sum to exactly 32.
C1_WidthsSumTo32 ==
    \A c \in Configs :
        LET decl == Struct(UnionFor(reg), c)
        IN  SumWidths(decl, Len(decl)) = 32

C1_Witness ==
    /\ reg = CTU_CAN_FD_FRAME_FORM_W
    /\ config = "BE"
    /\ Len(Decl) = 10
    /\ op.kind = "field"
    /\ Holds(FieldIndex(Decl, "reserved_31_16"), MaxVal(16))

\* A tuple of in-range field values for struct d, drawn from the bits of
\* word p.
TupleOf(p, d) ==
    [k \in 1 .. Len(d) |-> Shr(p, k) \cap MaxVal(d[k].width)]

\* C2: the integer view and the bit-field view denote the same 32 bits:
\* splitting the raw word into its fields and packing them again gives the
\* raw word, every field value lies within its width, and a tuple of
\* in-range field values packed into a raw word is split into the same
\* tuple.
C2_ViewsAreBijective ==
    LET d == Decl
        t == Split(u32, d, config)
    IN  /\ Pack(t, d, config) = u32
        /\ \A k \in 1 .. Len(d) : t[k] \subseteq MaxVal(d[k].width)
        /\ LET tp == TupleOf(BitPos \ u32, d)
           IN  Split(Pack(tp, d, config), d, config) = tp

C2_Witness ==
    /\ reg = CTU_CAN_FD_IDENTIFIER_W
    /\ config = "BE"
    /\ op.kind = "field"
    /\ Holds(FieldIndex(Decl, "identifier_base"), Irregular \cap MaxVal(11))
    /\ u32 \notin RawSamples
    /\ TupleOf(u32, Decl) # Split(u32, Decl, config)

X(name, lo, hi, mask) == [name |-> name, lo |-> lo, hi |-> hi, mask |-> mask]

\* The frame-format word as the claim lays it out (mask -1: a reserved
\* field, for which no raw value is given).
C3_Expected ==
    { X("dlc", 0, 3, 15), X("reserved_4", 4, 4, -1), X("rtr", 5, 5, 32),
      X("ide", 6, 6, 64), X("fdf", 7, 7, 128), X("tbf", 8, 8, 256),
      X("brs", 9, 9, 512), X("esi_rsv", 10, 10, 1024),
      X("rwcnt", 11, 15, 63488), X("reserved_31_16", 16, 31, -1) }

\* In both builds the fields of union u lie where the table says, and
\* their bit ranges are pairwise disjoint and cover the whole word.
LaidOutAs(u, expected) ==
    \A c \in Configs :
        LET d == Struct(u, c)
            R == {<<k, FieldRange(d, k, c)>> : k \in 1 .. Len(d)}
        IN  /\ FieldNames(d) = {x.name : x \in expected}
            /\ Len(d) = Cardinality(expected)
            /\ \A x \in expected :
                   /\ FieldIndex(d, x.name) # 0
                   /\ <<FieldIndex(d, x.name), x.lo .. x.hi>> \in R
            /\ \A x, y \in R : x[1] # y[1] => x[2] \cap y[2] = {}
            /\ UNION {x[2] : x \in R} = 0 .. 31

\* A named field set alone to its maximum gives the table's raw value.
MaximaAs(expected) ==
    LET d == Decl
    IN  \A x \in expected :
            (x.mask # -1 /\ OnlyMax(FieldIndex(d, x.name))) =>
                Num(u32) = x.mask

FrameFormLaidOutAsStated == LaidOutAs(ctu_can_fd_frame_form_w, C3_Expected)

\* C3: in the frame-format word dlc is bits 3..0, reserved bit 4, rtr bit
\* 5, ide bit 6, fdf bit 7, tbf bit 8, brs bit 9, esi_rsv bit 10, rwcnt
\* bits 15..11 and reserved bits 31..16; a named field set alone to its
\* maximum gives 0xF, 0x20, 0x40, 0x80, 0x100, 0x200, 0x400, 0xF800; the
\* masks are pairwise disjoint and cover 0xFFFFFFFF.
C3_FrameFormLayout ==
    /\ FrameFormLaidOutAsStated
    /\ UnionFor(0) = ctu_can_fd_frame_form_w
    /\ reg = CTU_CAN_FD_FRAME_FORM_W => MaximaAs(C3_Expected)

C3_Witness ==
    /\ reg = CTU_CAN_FD_FRAME_FORM_W
    /\ config = "BE"
    /\ OnlyMax(FieldIndex(Decl, "rwcnt"))
    /\ u32 = Bits(63488)

C4_Expected ==
    { X("identifier_ext", 0, 17, 262143),
      X("identifier_base", 18, 28, 536608768),
      X("reserved_31_29", 29, 31, -1) }

IdentifierLaidOutAsStated == LaidOutAs(ctu_can_fd_identifier_w, C4_Expected)

\* C4: in the identifier word identifier_ext is bits 17..0, identifier_base
\* bits 28..18 and the reserved field bits 31..29; the maxima alone give
\* 0x0003FFFF and 0x1FFC0000; with the reserved bits zero the raw word is
\* b * 2^18 + e < 2^29 for the base b < 2^11 and the extension e < 2^18 it
\* holds, b and e are recovered from it by division, and they are the
\* values that were assigned.
C4_IdentifierLayout ==
    /\ IdentifierLaidOutAsStated
    /\ UnionFor(4) = ctu_can_fd_identifier_w
    /\ reg = CTU_CAN_FD_IDENTIFIER_W =>
        /\ MaximaAs(C4_Expected)
        /\ LET kb == FieldIndex(Decl, "identifier_base")
               ke == FieldIndex(Decl, "identifier_ext")
               kr == FieldIndex(Decl, "reserved_31_29")
               b  == Num(ReadField(u32, Decl, kb, config))
               e  == Num(ReadField(u32, Decl, ke, config))
           IN  ReadField(u32, Decl, kr, config) = {} =>
                   /\ 0 <= b /\ b < 2 ^ 11
                   /\ 0 <= e /\ e < 2 ^ 18
                   /\ Num(u32) = b * (2 ^ 18) + e
                   /\ Num(u32) < 2 ^ 29
                   /\ Num(u32) \div (2 ^ 18) = b
                   /\ Num(u32) % (2 ^ 18) = e
                   /\ \A v \in {w \in ValueSamples(11) : w \subseteq MaxVal(11)} :
                          Holds(kb, v) => b = Num(v)
                   /\ \A v \in {w \in ValueSamples(18) : w \subseteq MaxVal(18)} :
                          Holds(ke, v) => e = Num(v)

C4_Witness ==
    /\ reg = CTU_CAN_FD_IDENTIFIER_W
    /\ config = "BE"
    /\ Holds(FieldIndex(Decl, "identifier_base"), Irregular \cap MaxVal(11))
    /\ Holds(FieldIndex(Decl, "identifier_ext"), Irregular \cap MaxVal(18))
    /\ ReadField(u32, Decl, FieldIndex(Decl, "reserved_31_29"), config) = {}
    /\ Num(u32) = Num(Irregular \cap MaxVal(11)) * (2 ^ 18)
                    + Num(Irregular \cap MaxVal(18))

\* Every field of union u occupies the same bits of the raw word in the
\* build that defines __LITTLE_ENDIAN_BITFIELD and in the one that does
\* not.
SameBitsInBothConfigs(u) ==
    LET le == Struct(u, "LE")
        be == Struct(u, "BE")
    IN  /\ FieldNames(le) = FieldNames(be)
        /\ \A name \in FieldNames(le) :
               /\ FieldIndex(be, name) # 0
               /\ FieldRange(le, FieldIndex(le, name), "LE")
                    = FieldRange(be, FieldIndex(be, name), "BE")
               /\ le[FieldIndex(le, name)].width
                    = be[FieldIndex(be, name)].width

\* The words whose union has two orderings, the second the exact reverse
\* of the first, that put every field at the same bits.
TwoReversedOrderings ==
    {off \in Offsets :
        /\ UnionFor(off).ifdef
        /\ UnionFor(off).else = Reverse(UnionFor(off).body)
        /\ SameBitsInBothConfigs(UnionFor(off))}

\* The words whose union has a single unconditional declaration of one
\* field (which is at the same bits in both configurations).
OneUnconditionalField ==
    {off \in Offsets :
        /\ ~UnionFor(off).ifdef
        /\ Len(UnionFor(off).body) = 1
        /\ UnionFor(off).else = << >>
        /\ SameBitsInBothConfigs(UnionFor(off))}

\* C5 as stated: every overlay type has two field orderings selected by
\* endianness, the second the exact reverse of the first, so that every
\* field occupies the same bits under both configurations.
C5_TwoOrderingsEverywhere ==
    reg \in TwoReversedOrderings

\* C5 (amended): the frame-format, identifier and three data overlays have
\* two field orderings selected by __LITTLE_ENDIAN_BITFIELD, the second the
\* exact reverse of the first with the same names and widths; the two
\* timestamp overlays have a single unconditional declaration of one
\* field; in all seven every field occupies the same bits of the raw word
\* under both configurations, so a field assigned in either build reads
\* back from the bits the other build gives it.
C5_OrderingsDescribeSameRegister ==
    /\ reg \in {CTU_CAN_FD_TIMESTAMP_L_W, CTU_CAN_FD_TIMESTAMP_U_W} =>
           reg \in OneUnconditionalField
    /\ reg \notin {CTU_CAN_FD_TIMESTAMP_L_W, CTU_CAN_FD_TIMESTAMP_U_W} =>
           reg \in TwoReversedOrderings
    /\ LET other == IF config = "LE" THEN "BE" ELSE "LE"
           d     == Decl
           o     == Struct(UnionFor(reg), other)
       IN  \A k \in 1 .. Len(d) :
               (last[k] # << >> /\ last[k][1] \subseteq MaxVal(d[k].width)) =>
                   ReadField(u32, o, FieldIndex(o, d[k].name), other)
                       = last[k][1]

C5_Witness ==
    /\ reg = CTU_CAN_FD_DATA_5_8_W
    /\ config = "BE"
    /\ Decl[1].name = "data_8"
    /\ Holds(1, MaxVal(8))
    /\ u32 \cap (24 .. 31) = 24 .. 31

\* The map is the seven entries at 0x0, 0x4, 0x8, 0xc, 0x10, 0x14 and
\* 0x4c, multiples of 4 in strictly increasing order whose 32-bit words do
\* not overlap, and entries and unions correspond one to one.
MapIsSevenDisjointWords ==
    LET m == ctu_can_fd_can_frame_format
    IN  /\ m = << E("FRAME_FORM_W", 0), E("IDENTIFIER_W", 4),
                  E("TIMESTAMP_L_W", 8), E("TIMESTAMP_U_W", 12),
                  E("DATA_1_4_W", 16), E("DATA_5_8_W", 20),
                  E("DATA_61_64_W", 76) >>
        /\ Len(m) = 7
        /\ Cardinality(Offsets) = 7
        /\ \A i \in 1 .. Len(m) : m[i].offset % 4 = 0
        /\ \A i \in 1 .. Len(m) - 1 : m[i].offset < m[i + 1].offset
        /\ \A i, j \in 1 .. Len(m) :
               i # j => (m[i].offset .. m[i].offset + 3)
                            \cap (m[j].offset .. m[j].offset + 3) = {}
        /\ \A i \in 1 .. Len(m) : Cardinality(UnionsFor(m[i].offset)) = 1
        /\ Len(Unions) = 7
        /\ \A k \in 1 .. Len(Unions) :
               \E i \in 1 .. Len(m) : m[i].name = Unions[k].reg

\* C6: the memory map has exactly the 7 entries frame-form 0x0, identifier
\* 0x4, timestamp-low 0x8, timestamp-high 0xc, data 1-4 0x10, data 5-8
\* 0x14 and data 61-64 0x4c; the offsets are multiples of 4 that strictly
\* increase in declaration order, so no two 32-bit words overlap; and
\* every entry has exactly one overlay union (and every union an entry):
\* the word an overlay object describes is always one of the seven.
C6_MemoryMap ==
    /\ MapIsSevenDisjointWords
    /\ reg \in Offsets
    /\ Cardinality(UnionsFor(reg)) = 1
    /\ Len(last) = Len(Struct(UnionFor(reg), config))

C6_Witness ==
    /\ reg = CTU_CAN_FD_DATA_61_64_W
    /\ UnionFor(reg) = ctu_can_fd_data_61_64_w
    /\ op.kind = "field"
    /\ Holds(FieldIndex(Decl, "data_64"), MaxVal(8))

\* Each of the six enumerations has the two enumerators 0 and 1, and its
\* field is one bit wide in both variants of the frame-format struct, so
\* that 0 and 1 are exactly the values the field can hold.
FlagEnumsNameBitValues ==
    /\ Len(FlagEnums) = 6
    /\ {FlagEnums[i].field : i \in 1 .. 6}
           = {"rtr", "ide", "fdf", "tbf", "brs", "esi_rsv"}
    /\ \A i \in 1 .. Len(FlagEnums) :
           LET e == FlagEnums[i].enum
           IN  /\ Len(e) = 2
               /\ e[1].value = 0 /\ e[2].value = 1
               /\ e[1].name # e[2].name
               /\ \A c \in Configs :
                      LET d == Struct(ctu_can_fd_frame_form_w, c)
                          k == FieldIndex(d, FlagEnums[i].field)
                      IN  /\ k # 0
                          /\ d[k].width = 1
                          /\ {x \in 0 .. 7 : Bits(x) \subseteq MaxVal(d[k].width)}
                                 = EnumValues(e)

\* C7: each of the six flag enumerations rtr, ide, fdf, tbf, brs, esi_rsv
\* names exactly the values 0 and 1, which are exactly the values its
\* field of the frame-format word, one bit wide, can hold; an enumerator
\* assigned to its field is read back from it.
C7_FlagEnums ==
    /\ FlagEnumsNameBitValues
    /\ reg = CTU_CAN_FD_FRAME_FORM_W =>
           LET d == Decl
           IN  \A i \in 1 .. Len(FlagEnums) :
                   LET k == FieldIndex(d, FlagEnums[i].field)
                   IN  \A x \in EnumValues(FlagEnums[i].enum) :
                           Holds(k, Bits(x)) =>
                               Num(ReadField(u32, d, k, config)) = x

C7_Witness ==
    /\ reg = CTU_CAN_FD_FRAME_FORM_W
    /\ config = "BE"
    /\ Holds(FieldIndex(Decl, "brs"), Bits(0))
    /\ Holds(FieldIndex(Decl, "esi_rsv"), Bits(1))
    /\ u32 = BitPos \ {9}

\* C8: payload bytes are packed four to a word from the least significant
\* byte: the field of payload byte number b (1..8 and 61..64) lies in the
\* word at offset 0x10 + 4*((b-1) div 4), at bits 8*((b-1) mod 4) + 7 down
\* to 8*((b-1) mod 4), and a byte value assigned to it is that byte of the
\* raw word; the three data words carry bytes 1..4, 5..8 and 61..64, and
\* 0x4c is the offset this layout gives byte 64.
C8_PayloadBytes ==
    LET d == Decl
        bytes == {ByteNumber(d[k].name) : k \in 1 .. Len(d)}
    IN  /\ reg \in {16, 20, 76} <=> bytes # {0}
        /\ bytes # {0} =>
               /\ Len(d) = 4
               /\ bytes = CASE reg = 16 -> 1 .. 4
                            [] reg = 20 -> 5 .. 8
                            [] reg = 76 -> 61 .. 64
                            [] OTHER -> {}
               /\ \A k \in 1 .. Len(d) :
                      LET b   == ByteNumber(d[k].name)
                          pos == (b - 1) % 4
                      IN  /\ reg = 16 + 4 * ((b - 1) \div 4)
                          /\ FieldRange(d, k, config)
                                 = (8 * pos) .. (8 * pos + 7)
                          /\ \A v \in ValueSamples(8) :
                                 (Holds(k, v) /\ v \subseteq MaxVal(8)) =>
                                     Shr(u32, 8 * pos) \cap MaxVal(8) = v
        /\ CTU_CAN_FD_DATA_61_64_W = 16 + 4 * ((64 - 1) \div 4)

C8_Witness ==
    /\ reg = CTU_CAN_FD_DATA_61_64_W
    /\ config = "BE"
    /\ Holds(FieldIndex(Decl, "data_63"), Irregular \cap MaxVal(8))
    /\ Holds(FieldIndex(Decl, "data_62"), MaxVal(8))
    /\ Shr(u32, 16) \cap MaxVal(8) = Irregular \cap MaxVal(8)
    /\ Shr(u32, 8) \cap MaxVal(8) = MaxVal(8)

\* C9: the word at offset 0x8 is the timestamp-low word and the word at
\* offset 0xc the timestamp-high word, each a single field that takes all
\* 32 bits; of a 64-bit timestamp t the low word holds t mod 2^32 and the
\* high word t div 2^32, and the half read back from the word, put
\* together with the other half, is t.
C9_TimestampWords ==
    /\ UnionFor(8).reg = "TIMESTAMP_L_W"
    /\ UnionFor(12).reg = "TIMESTAMP_U_W"
    /\ CTU_CAN_FD_TIMESTAMP_L_W = 8
    /\ CTU_CAN_FD_TIMESTAMP_U_W = 12
    /\ reg \in {8, 12} =>
           /\ Len(Decl) = 1
           /\ Decl[1].width = 32
           /\ FieldRange(Decl, 1, config) = 0 .. 31
           /\ op.kind = "timestamp" =>
                  LET half == ReadField(u32, Decl, 1, config)
                  IN  /\ reg = 8 =>
                             /\ u32 = Low32(op.t)
                             /\ Combine(High32(op.t), half) = op.t
                      /\ reg = 12 =>
                             /\ u32 = High32(op.t)
                             /\ Combine(half, Low32(op.t)) = op.t

C9_Witness ==
    /\ reg = CTU_CAN_FD_TIMESTAMP_U_W
    /\ op.kind = "timestamp"
    /\ op.t \cap BitPos = Irregular
    /\ u32 = Shl(Bits(4660), 16) \cup Bits(22136)

\* C10: assigning an in-range value to one field through the bit-field
\* view changes only that field's bits of the raw word: every other field,
\* reserved fields included, reads back unchanged; and after any sequence
\* of field assignments every field holds the in-range value last assigned
\* to it.
C10_FieldWriteFrame ==
    [][ op'.kind = "field" =>
          LET d == Decl
          IN  \A k \in 1 .. Len(d) :
                  /\ last'[k] = last[k] =>
                         ReadField(u32', d, k, config)
                             = ReadField(u32, d, k, config)
                  /\ last'[k] # last[k] =>
                         u32' \ FieldRange(d, k, config)
                             = u32 \ FieldRange(d, k, config)
                  /\ (last'[k] # << >>
                         /\ last'[k][1] \subseteq MaxVal(d[k].width)) =>
                         ReadField(u32', d, k, config) = last'[k][1]
      ]_vars

C10_Witness ==
    /\ reg = CTU_CAN_FD_FRAME_FORM_W
    /\ nops = 3
    /\ op.kind = "field"
    /\ Holds(FieldIndex(Decl, "dlc"), Irregular \cap MaxVal(4))
    /\ Holds(FieldIndex(Decl, "rtr"), {})
    /\ u32 \cap (16 .. 31) = Irregular \cap (16 .. 31)
    /\ 5 \notin u32
    /\ 5 \in Irregular

=============================================================================
